---- MODULE Spec2Model ----
(***************************************************************************)
(* A model of StreamFeed (src/src/feed.ts): the request descriptors a feed *)
(* hands to its client, and the bookkeeping of real-time subscriptions in  *)
(* the client's shared registry (client.subscriptions).                    *)
(*                                                                         *)
(* Strings are sequences of one-character strings, so that replace, join   *)
(* and template literals are computed character by character.  A JS value  *)
(* is a record tagged by its type in field k.  A JS object is a record     *)
(* holding every key it may have; a key holding Undefined is a key the     *)
(* object does not have.                                                   *)
(***************************************************************************)
EXTENDS Integers, Sequences, FiniteSets, TLC

VARIABLES
  appId,          \* client.appId
  currentUser,    \* client.currentUser
  feeds,          \* the StreamFeed objects constructed so far
  subscriptions,  \* client.subscriptions: channel name -> entry
  handles,        \* the Faye.Subscription objects the Faye client has handed out
  call,           \* the last call made and its arguments
  err,            \* the error it threw, or "none"
  sent            \* the request descriptors it handed to the client

vars == <<appId, currentUser, feeds, subscriptions, handles, call, err, sent>>

(***************************************************************************)
(* Bounds of the model.                                                    *)
(***************************************************************************)
MaxFeeds == 2
MaxHandles == 2

(***************************************************************************)
(* JS values.                                                              *)
(***************************************************************************)
Undefined == [k |-> "undefined"]
Str(s) == [k |-> "string", s |-> s]
Bool(b) == [k |-> "boolean", b |-> b]
Num(n) == [k |-> "number", n |-> n]
Arr(a) == [k |-> "array", a |-> a]
StreamUser(id) == [k |-> "StreamUser", id |-> id]
Obj(o) == [k |-> "object", o |-> o]

\* if (v) ...
Truthy(v) ==
  CASE v.k = "undefined" -> FALSE
    [] v.k = "string" -> v.s # <<>>
    [] v.k = "boolean" -> v.b
    [] v.k = "number" -> v.n # 0
    [] OTHER -> TRUE

\* typeof v === 'number', typeof v === 'boolean'
IsNumber(v) == v.k = "number"
IsBoolean(v) == v.k = "boolean"

\* v.join is defined: only arrays have it
HasJoin(v) == v.k = "array"

S_undefined == <<"u", "n", "d", "e", "f", "i", "n", "e", "d">>
S_objectObject ==
  <<"[", "o", "b", "j", "e", "c", "t", " ", "O", "b", "j", "e", "c", "t", "]">>
S_true == <<"t", "r", "u", "e">>
S_false == <<"f", "a", "l", "s", "e">>

RECURSIVE join(_, _)
\* Array.prototype.join of an array of strings
join(a, sep) ==
  IF a = <<>> THEN <<>>
  ELSE IF Len(a) = 1 THEN a[1]
  ELSE a[1] \o sep \o join(Tail(a), sep)

\* `${v}` in a template literal (numbers are never interpolated by the feed)
toString(v) ==
  CASE v.k = "undefined" -> S_undefined
    [] v.k = "string" -> v.s
    [] v.k = "boolean" -> IF v.b THEN S_true ELSE S_false
    [] v.k = "array" -> join(v.a, <<",">>)
    [] OTHER -> S_objectObject

\* s.indexOf(c) for a one-character c, 1-based; 0 stands for -1
indexOf(s, c) ==
  IF \E i \in 1..Len(s) : s[i] = c
  THEN CHOOSE i \in 1..Len(s) : s[i] = c /\ \A j \in 1..(i - 1) : s[j] # c
  ELSE 0

\* s.replace(c, r) with a string pattern: the first occurrence only
replace(s, c, r) ==
  LET i == indexOf(s, c) IN
  IF i = 0 THEN s
  ELSE SubSeq(s, 1, i - 1) \o r \o SubSeq(s, i + 1, Len(s))

\* a.includes(x)
includes(a, x) == \E i \in 1..Len(a) : a[i] = x

\* {...a, ...b} for two objects with the same keys
Spread(a, b) == [key \in DOMAIN a |-> IF b[key] # Undefined THEN b[key] ELSE a[key]]

(***************************************************************************)
(* utils.validateFeedSlug and utils.validateUserId: fail when the string   *)
(* is empty or holds a character outside the allowed set.                  *)
(***************************************************************************)
AllowedChars == {"a", "b", "1", "2", "_"}

validChars(v) ==
  LET s == toString(v) IN s # <<>> /\ \A i \in 1..Len(s) : s[i] \in AllowedChars

validateFeedSlug(feedSlug) == validChars(feedSlug)
validateUserId(userId) == validChars(userId)

(***************************************************************************)
(* String literals of feed.ts.                                             *)
(***************************************************************************)
S_feed == <<"f", "e", "e", "d", "/">>
S_enrich == <<"e", "n", "r", "i", "c", "h", "/">>
S_following == <<"f", "o", "l", "l", "o", "w", "i", "n", "g", "/">>
S_followers == <<"f", "o", "l", "l", "o", "w", "e", "r", "s", "/">>
S_feedTargets == <<"f", "e", "e", "d", "_", "t", "a", "r", "g", "e", "t", "s", "/">>
S_activityToTargets ==
  <<"a", "c", "t", "i", "v", "i", "t", "y", "_", "t", "o", "_",
    "t", "a", "r", "g", "e", "t", "s", "/">>
S_site == <<"s", "i", "t", "e", "-">>
S_dashFeed == <<"-", "f", "e", "e", "d", "-">>

(***************************************************************************)
(* constructor(client, feedSlug, userId, token)                            *)
(***************************************************************************)
\* the mutant: the token is not checked
StreamFeed_noTokenCheck(clientAppId, feedSlug, userId, token) ==
  IF ~Truthy(feedSlug) \/ ~Truthy(userId) THEN [err |-> "FeedError"]
  ELSE IF indexOf(feedSlug.s, ":") # 0 THEN [err |-> "FeedError"]
  ELSE IF ~validateFeedSlug(feedSlug) THEN [err |-> "FeedError"]
  ELSE IF ~validateUserId(userId) THEN [err |-> "FeedError"]
  ELSE
    LET id == feedSlug.s \o <<":">> \o userId.s
        feedTogether == replace(id, ":", <<>>)
    IN [err |-> "none",
        feed |-> [slug |-> feedSlug.s,
                  userId |-> userId.s,
                  id |-> id,
                  token |-> toString(token),
                  feedUrl |-> replace(id, ":", <<"/">>),
                  feedTogether |-> feedTogether,
                  signature |-> feedTogether \o <<" ">> \o toString(token),
                  notificationChannel |->
                    S_site \o toString(clientAppId) \o S_dashFeed \o feedTogether]]

\* the outcome of new StreamFeed(client, feedSlug, userId, token)
StreamFeed(clientAppId, feedSlug, userId, token) ==
  IF ~Truthy(feedSlug) \/ ~Truthy(userId) THEN [err |-> "FeedError"]
  ELSE IF indexOf(feedSlug.s, ":") # 0 THEN [err |-> "FeedError"]
  ELSE IF ~validateFeedSlug(feedSlug) THEN [err |-> "FeedError"]
  ELSE IF ~validateUserId(userId) THEN [err |-> "FeedError"]
  ELSE IF ~Truthy(token) THEN [err |-> "FeedError"]
  ELSE
    LET id == feedSlug.s \o <<":">> \o userId.s
        feedTogether == replace(id, ":", <<>>)
    IN [err |-> "none",
        feed |-> [slug |-> feedSlug.s,
                  userId |-> userId.s,
                  id |-> id,
                  token |-> token.s,
                  feedUrl |-> replace(id, ":", <<"/">>),
                  feedTogether |-> feedTogether,
                  signature |-> feedTogether \o <<" ">> \o token.s,
                  notificationChannel |->
                    S_site \o toString(clientAppId) \o S_dashFeed \o feedTogether]]

(***************************************************************************)
(* The operations that build one request descriptor.  Each gives the error *)
(* thrown (or "none") and the descriptors handed to client.post,           *)
(* client.get or client.delete.  A descriptor without qs or body holds     *)
(* Undefined there.                                                        *)
(***************************************************************************)
Thrown(e) == [err |-> e, reqs |-> <<>>]
Issued(req) == [err |-> "none", reqs |-> <<req>>]

\* StreamUser.ref() of the client's current user
ref(user) == Str(<<"S", "U", ":">> \o user.id)

\* utils.replaceStreamObjects: an activity of plain strings is left as it is
replaceStreamObjects(activity) == activity

addActivity(feed, activity, clientCurrentUser) ==
  LET replaced == replaceStreamObjects(activity)
      body == IF ~Truthy(replaced.actor) /\ Truthy(clientCurrentUser)
              THEN [replaced EXCEPT !.actor = ref(clientCurrentUser)]
              ELSE replaced
  IN Issued([method |-> "POST",
             url |-> S_feed \o feed.feedUrl \o <<"/">>,
             qs |-> Undefined,
             body |-> body,
             signature |-> feed.signature])

\* (activityId as { foreignId: string }).foreignId
foreignIdOf(activityId) ==
  IF activityId.k = "object" THEN activityId.o.foreignId ELSE Undefined

\* the mutant: the path is built from the feed id, not from feedUrl
removeActivity_idPath(feed, activityId) ==
  LET foreignId == foreignIdOf(activityId) IN
  Issued([method |-> "DELETE",
          url |-> S_feed \o feed.id \o <<"/">>
                    \o toString(IF Truthy(foreignId) THEN foreignId ELSE activityId)
                    \o <<"/">>,
          qs |-> [foreign_id |-> IF Truthy(foreignId) THEN Str(<<"1">>) ELSE Undefined],
          body |-> Undefined,
          signature |-> feed.signature])

removeActivity(feed, activityId) ==
  LET foreignId == foreignIdOf(activityId) IN
  Issued([method |-> "DELETE",
          url |-> S_feed \o feed.feedUrl \o <<"/">>
                    \o toString(IF Truthy(foreignId) THEN foreignId ELSE activityId)
                    \o <<"/">>,
          qs |-> [foreign_id |-> IF Truthy(foreignId) THEN Str(<<"1">>) ELSE Undefined],
          body |-> Undefined,
          signature |-> feed.signature])

addActivities(feed, activities) ==
  Issued([method |-> "POST",
          url |-> S_feed \o feed.feedUrl \o <<"/">>,
          qs |-> Undefined,
          body |-> [activities |-> replaceStreamObjects(activities)],
          signature |-> feed.signature])

\* the mutant: the request is built before the target is validated
follow_postFirst(feed, targetSlug, targetUserId, options) ==
  LET id == IF targetUserId.k = "StreamUser" THEN Str(targetUserId.id) ELSE targetUserId
      req == [method |-> "POST",
              url |-> S_feed \o feed.feedUrl \o <<"/">> \o S_following,
              qs |-> Undefined,
              body |-> [target |-> Str(toString(targetSlug) \o <<":">> \o toString(id)),
                        activity_copy_limit |->
                          IF IsNumber(options.limit) THEN options.limit ELSE Undefined],
              signature |-> feed.signature]
  IN IF ~validateFeedSlug(targetSlug) \/ ~validateUserId(id)
     THEN [err |-> "FeedError", reqs |-> <<req>>]
     ELSE Issued(req)

\* the mutant: a limit of zero is not copied
follow_anyLimit(feed, targetSlug, targetUserId, options) ==
  LET id == IF targetUserId.k = "StreamUser" THEN Str(targetUserId.id) ELSE targetUserId
  IN IF ~validateFeedSlug(targetSlug) THEN Thrown("FeedError")
     ELSE IF ~validateUserId(id) THEN Thrown("FeedError")
     ELSE Issued([method |-> "POST",
                  url |-> S_feed \o feed.feedUrl \o <<"/">> \o S_following,
                  qs |-> Undefined,
                  body |-> [target |-> Str(toString(targetSlug) \o <<":">> \o toString(id)),
                            activity_copy_limit |->
                              IF IsNumber(options.limit) /\ Truthy(options.limit)
                              THEN options.limit ELSE Undefined],
                  signature |-> feed.signature])

follow(feed, targetSlug, targetUserId, options) ==
  LET id == IF targetUserId.k = "StreamUser" THEN Str(targetUserId.id) ELSE targetUserId
  IN IF ~validateFeedSlug(targetSlug) THEN Thrown("FeedError")
     ELSE IF ~validateUserId(id) THEN Thrown("FeedError")
     ELSE Issued([method |-> "POST",
                  url |-> S_feed \o feed.feedUrl \o <<"/">> \o S_following,
                  qs |-> Undefined,
                  body |-> [target |-> Str(toString(targetSlug) \o <<":">> \o toString(id)),
                            activity_copy_limit |->
                              IF IsNumber(options.limit) THEN options.limit ELSE Undefined],
                  signature |-> feed.signature])

unfollow(feed, targetSlug, targetUserId, options) ==
  LET qs == [keep_history |->
               IF IsBoolean(options.keepHistory) /\ Truthy(options.keepHistory)
               THEN Str(<<"1">>) ELSE Undefined]
  IN IF ~validateFeedSlug(targetSlug) THEN Thrown("FeedError")
     ELSE IF ~validateUserId(targetUserId) THEN Thrown("FeedError")
     ELSE
       LET targetFeedId == toString(targetSlug) \o <<":">> \o toString(targetUserId)
       IN Issued([method |-> "DELETE",
                  url |-> S_feed \o feed.feedUrl \o <<"/">> \o S_following
                            \o targetFeedId \o <<"/">>,
                  qs |-> qs,
                  body |-> Undefined,
                  signature |-> feed.signature])

\* an object of GetFollowOptions with no key
NoFollowOptions == [filter |-> Undefined, limit |-> Undefined, offset |-> Undefined]

following(feed, options) ==
  LET extraOptions ==
        IF Truthy(options.filter)
        THEN [NoFollowOptions EXCEPT !.filter = Str(join(options.filter.a, <<",">>))]
        ELSE NoFollowOptions
  IN Issued([method |-> "GET",
             url |-> S_feed \o feed.feedUrl \o <<"/">> \o S_following,
             qs |-> Spread(options, extraOptions),
             body |-> Undefined,
             signature |-> feed.signature])

followers(feed, options) ==
  LET extraOptions ==
        IF Truthy(options.filter)
        THEN [NoFollowOptions EXCEPT !.filter = Str(join(options.filter.a, <<",">>))]
        ELSE NoFollowOptions
  IN Issued([method |-> "GET",
             url |-> S_feed \o feed.feedUrl \o <<"/">> \o S_followers,
             qs |-> Spread(options, extraOptions),
             body |-> Undefined,
             signature |-> feed.signature])

\* an object of GetFeedOptions & NotificationFeedOptions with no key
NoGetOptions ==
  [id_gte |-> Undefined, id_lte |-> Undefined, limit |-> Undefined,
   mark_read |-> Undefined, mark_seen |-> Undefined]

\* client.replaceReactionOptions(options) rewrites the enrichment keys in place;
\* the options of the model hold none
replaceReactionOptions(options) == options

\* the mutant: mark_seen is sent as it was given
get_rawMarkSeen(feed, options, shouldUseEnrichEndpoint) ==
  LET extraOptions ==
        [NoGetOptions EXCEPT
           !.mark_read = IF Truthy(options.mark_read) /\ HasJoin(options.mark_read)
                         THEN Str(join(options.mark_read.a, <<",">>)) ELSE Undefined]
      replaced == replaceReactionOptions(options)
      path == IF shouldUseEnrichEndpoint THEN S_enrich \o S_feed ELSE S_feed
  IN Issued([method |-> "GET",
             url |-> path \o feed.feedUrl \o <<"/">>,
             qs |-> Spread(replaced, extraOptions),
             body |-> Undefined,
             signature |-> feed.signature])

\* shouldUseEnrichEndpoint is what client.shouldUseEnrichEndpoint(options) answers
get(feed, options, shouldUseEnrichEndpoint) ==
  LET extraOptions ==
        [NoGetOptions EXCEPT
           !.mark_read = IF Truthy(options.mark_read) /\ HasJoin(options.mark_read)
                         THEN Str(join(options.mark_read.a, <<",">>)) ELSE Undefined,
           !.mark_seen = IF Truthy(options.mark_seen) /\ HasJoin(options.mark_seen)
                         THEN Str(join(options.mark_seen.a, <<",">>)) ELSE Undefined]
      replaced == replaceReactionOptions(options)
      path == IF shouldUseEnrichEndpoint THEN S_enrich \o S_feed ELSE S_feed
  IN Issued([method |-> "GET",
             url |-> path \o feed.feedUrl \o <<"/">>,
             qs |-> Spread(replaced, extraOptions),
             body |-> Undefined,
             signature |-> feed.signature])

\* options is undefined or an object of EnrichOptions, whose keys the model leaves out
getActivityDetail(feed, activityId, options, shouldUseEnrichEndpoint) ==
  get(feed,
      Spread([NoGetOptions EXCEPT !.id_lte = activityId, !.id_gte = activityId,
                                  !.limit = Num(1)],
             IF options # Undefined THEN options ELSE NoGetOptions),
      shouldUseEnrichEndpoint)

\* the body of the addedTargets.forEach: some added target is also removed
sameInBoth(addedTargets, removedTargets) ==
  \E i \in 1..Len(addedTargets.a) : includes(removedTargets.a, addedTargets.a[i])

\* the mutant: only the first added target is looked up in removedTargets
updateActivityToTargets_firstOnly(feed, foreignId, time, newTargets, addedTargets, removedTargets) ==
  IF ~Truthy(foreignId) THEN Thrown("Error")
  ELSE IF ~Truthy(time) THEN Thrown("Error")
  ELSE IF ~Truthy(newTargets) /\ ~Truthy(addedTargets) /\ ~Truthy(removedTargets)
    THEN Thrown("Error")
  ELSE IF Truthy(newTargets) /\ (Truthy(addedTargets) \/ Truthy(removedTargets))
    THEN Thrown("Error")
  ELSE IF /\ Truthy(addedTargets) /\ Truthy(removedTargets)
          /\ addedTargets.a # <<>>
          /\ includes(removedTargets.a, addedTargets.a[1])
    THEN Thrown("Error")
  ELSE Issued([method |-> "POST",
               url |-> S_feedTargets \o feed.feedUrl \o <<"/">> \o S_activityToTargets,
               qs |-> Undefined,
               body |-> [foreign_id |-> foreignId,
                         time |-> time,
                         new_targets |-> IF Truthy(newTargets) THEN newTargets ELSE Undefined,
                         added_targets |->
                           IF Truthy(addedTargets) THEN addedTargets ELSE Undefined,
                         removed_targets |->
                           IF Truthy(removedTargets) THEN removedTargets ELSE Undefined],
               signature |-> feed.signature])

updateActivityToTargets(feed, foreignId, time, newTargets, addedTargets, removedTargets) ==
  IF ~Truthy(foreignId) THEN Thrown("Error")
  ELSE IF ~Truthy(time) THEN Thrown("Error")
  ELSE IF ~Truthy(newTargets) /\ ~Truthy(addedTargets) /\ ~Truthy(removedTargets)
    THEN Thrown("Error")
  ELSE IF Truthy(newTargets) /\ (Truthy(addedTargets) \/ Truthy(removedTargets))
    THEN Thrown("Error")
  ELSE IF /\ Truthy(addedTargets) /\ Truthy(removedTargets)
          /\ sameInBoth(addedTargets, removedTargets)
    THEN Thrown("Error")
  ELSE Issued([method |-> "POST",
               url |-> S_feedTargets \o feed.feedUrl \o <<"/">> \o S_activityToTargets,
               qs |-> Undefined,
               body |-> [foreign_id |-> foreignId,
                         time |-> time,
                         new_targets |-> IF Truthy(newTargets) THEN newTargets ELSE Undefined,
                         added_targets |->
                           IF Truthy(addedTargets) THEN addedTargets ELSE Undefined,
                         removed_targets |->
                           IF Truthy(removedTargets) THEN removedTargets ELSE Undefined],
               signature |-> feed.signature])

(***************************************************************************)
(* subscribe(callback) and unsubscribe().  The Faye client hands out a new *)
(* Faye.Subscription on every subscribe; a handle is its index in handles, *)
(* with the channel it listens on and the number of times cancel() was     *)
(* called on it.                                                           *)
(***************************************************************************)
NoSubscriptions == [c \in {} |-> Undefined]

\* the key of the registry and the Faye channel: `/${this.notificationChannel}`
channelOf(feed) == <<"/">> \o feed.notificationChannel

\* the mutant: the app id is not checked
subscribe_noAppIdCheck(feed, clientAppId, subs, hs) ==
  LET channel == channelOf(feed)
      subscription == Len(hs) + 1
  IN [err |-> "none",
      handles |-> Append(hs, [channel |-> channel, cancelled |-> 0]),
      subscriptions |->
        [c \in DOMAIN subs \cup {channel} |->
           IF c = channel
           THEN [token |-> feed.token,
                 userId |-> feed.notificationChannel,
                 fayeSubscription |-> subscription]
           ELSE subs[c]]]

subscribe(feed, clientAppId, subs, hs) ==
  IF ~Truthy(clientAppId)
  THEN [err |-> "SiteError", handles |-> hs, subscriptions |-> subs]
  ELSE
    LET channel == channelOf(feed)
        subscription == Len(hs) + 1
    IN [err |-> "none",
        handles |-> Append(hs, [channel |-> channel, cancelled |-> 0]),
        subscriptions |->
          [c \in DOMAIN subs \cup {channel} |->
             IF c = channel
             THEN [token |-> feed.token,
                   userId |-> feed.notificationChannel,
                   fayeSubscription |-> subscription]
             ELSE subs[c]]]

\* the mutant: the entry is deleted and its handle is left running
unsubscribe_noCancel(feed, subs, hs) ==
  LET channel == channelOf(feed) IN
  IF channel \in DOMAIN subs
  THEN [err |-> "none",
        subscriptions |-> [c \in DOMAIN subs \ {channel} |-> subs[c]],
        handles |-> hs]
  ELSE [err |-> "none", subscriptions |-> subs, handles |-> hs]

\* the mutant: the whole registry is emptied, only the feed's handle is cancelled
unsubscribe_dropAll(feed, subs, hs) ==
  LET channel == channelOf(feed) IN
  IF channel \in DOMAIN subs
  THEN [err |-> "none",
        subscriptions |-> NoSubscriptions,
        handles |-> [hs EXCEPT ![subs[channel].fayeSubscription].cancelled = @ + 1]]
  ELSE [err |-> "none", subscriptions |-> subs, handles |-> hs]

unsubscribe(feed, subs, hs) ==
  LET channel == channelOf(feed) IN
  IF channel \in DOMAIN subs
  THEN [err |-> "none",
        subscriptions |-> [c \in DOMAIN subs \ {channel} |-> subs[c]],
        handles |-> [hs EXCEPT ![subs[channel].fayeSubscription].cancelled = @ + 1]]
  ELSE [err |-> "none", subscriptions |-> subs, handles |-> hs]

(***************************************************************************)
(* The state machine.                                                      *)
(***************************************************************************)
AppIds == {Undefined, Str(<<"1">>)}
CurrentUsers == {Undefined, StreamUser(<<"b">>)}

\* arguments of the constructor
FeedSlugs == {Undefined, Str(<<>>), Str(<<"a">>), Str(<<"a", "a">>),
              Str(<<"a", ":">>), Str(<<"a", "!">>)}
UserIds == {Undefined, Str(<<>>), Str(<<"a">>), Str(<<"a", "a">>), Str(<<"a", "!">>)}
Tokens == {Undefined, Str(<<>>), Str(<<"t">>)}

Init ==
  /\ appId \in AppIds
  /\ currentUser \in CurrentUsers
  /\ feeds = {}
  /\ subscriptions = NoSubscriptions
  /\ handles = <<>>
  /\ call = [op |-> "none"]
  /\ err = "none"
  /\ sent = <<>>

\* new StreamFeed(client, feedSlug, userId, token)
Construct(feedSlug, userId, token) ==
  LET r == StreamFeed(appId, feedSlug, userId, token) IN
  /\ r.err = "none" => (r.feed \in feeds \/ Cardinality(feeds) < MaxFeeds)
  /\ feeds' = IF r.err = "none" THEN feeds \cup {r.feed} ELSE feeds
  /\ call' = [op |-> "construct", feedSlug |-> feedSlug, userId |-> userId,
              token |-> token]
  /\ err' = r.err
  /\ sent' = <<>>
  /\ UNCHANGED <<appId, currentUser, subscriptions, handles>>

\* feed.subscribe(callback)
Subscribe(feed) ==
  LET r == subscribe(feed, appId, subscriptions, handles) IN
  /\ Len(r.handles) <= MaxHandles
  /\ subscriptions' = r.subscriptions
  /\ handles' = r.handles
  /\ call' = [op |-> "subscribe", feed |-> feed]
  /\ err' = r.err
  /\ sent' = <<>>
  /\ UNCHANGED <<appId, currentUser, feeds>>

\* feed.unsubscribe()
Unsubscribe(feed) ==
  LET r == unsubscribe(feed, subscriptions, handles) IN
  /\ subscriptions' = r.subscriptions
  /\ handles' = r.handles
  /\ call' = [op |-> "unsubscribe", feed |-> feed]
  /\ err' = r.err
  /\ sent' = <<>>
  /\ UNCHANGED <<appId, currentUser, feeds>>

\* an operation that only builds a request: the call, what it threw, what it sent
Request(c, r) ==
  /\ call' = c
  /\ err' = r.err
  /\ sent' = r.reqs
  /\ UNCHANGED <<appId, currentUser, feeds, subscriptions, handles>>

AddActivity(feed, activity) ==
  Request([op |-> "addActivity", feed |-> feed, activity |-> activity],
          addActivity(feed, activity, currentUser))

AddActivities(feed, activities) ==
  Request([op |-> "addActivities", feed |-> feed, activities |-> activities],
          addActivities(feed, activities))

RemoveActivity(feed, activityId) ==
  Request([op |-> "removeActivity", feed |-> feed, activityId |-> activityId],
          removeActivity(feed, activityId))

Follow(feed, targetSlug, targetUserId, options) ==
  Request([op |-> "follow", feed |-> feed, targetSlug |-> targetSlug,
           targetUserId |-> targetUserId, options |-> options],
          follow(feed, targetSlug, targetUserId, options))

Unfollow(feed, targetSlug, targetUserId, options) ==
  Request([op |-> "unfollow", feed |-> feed, targetSlug |-> targetSlug,
           targetUserId |-> targetUserId, options |-> options],
          unfollow(feed, targetSlug, targetUserId, options))

Following(feed, options) ==
  Request([op |-> "following", feed |-> feed, options |-> options],
          following(feed, options))

Followers(feed, options) ==
  Request([op |-> "followers", feed |-> feed, options |-> options],
          followers(feed, options))

Get(feed, options, shouldUseEnrichEndpoint) ==
  Request([op |-> "get", feed |-> feed, options |-> options,
           shouldUseEnrichEndpoint |-> shouldUseEnrichEndpoint],
          get(feed, options, shouldUseEnrichEndpoint))

GetActivityDetail(feed, activityId, options, shouldUseEnrichEndpoint) ==
  Request([op |-> "getActivityDetail", feed |-> feed, activityId |-> activityId,
           options |-> options, shouldUseEnrichEndpoint |-> shouldUseEnrichEndpoint],
          getActivityDetail(feed, activityId, options, shouldUseEnrichEndpoint))

UpdateActivityToTargets(feed, foreignId, time, newTargets, addedTargets, removedTargets) ==
  Request([op |-> "updateActivityToTargets", feed |-> feed, foreignId |-> foreignId,
           time |-> time, newTargets |-> newTargets, addedTargets |-> addedTargets,
           removedTargets |-> removedTargets],
          updateActivityToTargets(feed, foreignId, time, newTargets, addedTargets,
                                  removedTargets))

(***************************************************************************)
(* The arguments the callers pass.                                         *)
(***************************************************************************)
Activities ==
  [actor : {Undefined, Str(<<"u">>)}, verb : {Str(<<"v">>)}, object : {Str(<<"o">>)}]
ActivityRefs ==
  {Str(<<"x", "1">>), Str(<<>>),
   Obj([foreignId |-> Str(<<"f", "1">>)]), Obj([foreignId |-> Str(<<>>)])}
TargetSlugs == {Str(<<"b">>), Str(<<>>), Str(<<"b", "!">>)}
TargetUserIds ==
  {Str(<<"2">>), Str(<<>>), Str(<<"2", "!">>), StreamUser(<<"2">>), StreamUser(<<"!">>),
   Obj([id |-> Str(<<"2">>)])}
FollowOptions == [limit : {Undefined, Num(0), Num(5), Str(<<"5">>)}]
UnfollowOptions == [keepHistory : {Undefined, Bool(TRUE), Bool(FALSE)}]
Filters ==
  {Undefined, Arr(<<>>), Arr(<<<<"b", ":", "1">>>>),
   Arr(<<<<"b", ":", "1">>, <<"b", ":", "2">>>>)}
GetFollowOptions ==
  [filter : Filters, limit : {Undefined, Num(1)}, offset : {Undefined, Num(0)}]
S_current == <<"c", "u", "r", "r", "e", "n", "t">>
Marks ==
  {Undefined, Bool(TRUE), Bool(FALSE), Str(S_current), Arr(<<>>), Arr(<<<<"a">>>>),
   Arr(<<<<"a">>, <<"b">>>>)}
GetOptions ==
  [id_gte : {Undefined}, id_lte : {Undefined, Str(<<"x", "1">>)}, limit : {Undefined, Num(1)},
   mark_read : Marks, mark_seen : Marks]
ActivityLists == {<<>>} \cup {<<a>> : a \in Activities} \cup (Activities \X Activities)
DetailOptions == {Undefined, NoGetOptions}
ForeignIds == {Undefined, Str(<<>>), Str(<<"f">>)}
Times == {Undefined, Str(<<>>), Str(<<"t">>)}
TargetLists ==
  {Undefined, Arr(<<>>), Arr(<<<<"x">>>>), Arr(<<<<"y">>>>), Arr(<<<<"x">>, <<"y">>>>),
   Arr(<<<<"y">>, <<"x">>>>)}

\* the few of them used where calls follow one another in any order
SomeFeedArgs ==
  {<<Str(<<"a">>), Str(<<"a">>), Str(<<"t">>)>>,
   <<Str(<<"a">>), Str(<<"a", "a">>), Str(<<"t">>)>>,
   <<Str(<<"a", "a">>), Str(<<"a">>), Str(<<"t">>)>>,
   <<Str(<<"a", ":">>), Str(<<"a">>), Str(<<"t">>)>>,
   <<Str(<<"a">>), Str(<<"a">>), Undefined>>}
SomeActivity == [actor |-> Undefined, verb |-> Str(<<"v">>), object |-> Str(<<"o">>)]
SomeActivityRef == Obj([foreignId |-> Str(<<"f", "1">>)])
SomeGetOptions == [NoGetOptions EXCEPT !.mark_seen = Arr(<<<<"a">>>>)]

(***************************************************************************)
(* Spec: any calls, in any order, on the feeds of one client.              *)
(***************************************************************************)
Next ==
  \/ \E args \in SomeFeedArgs : Construct(args[1], args[2], args[3])
  \/ \E feed \in feeds : Subscribe(feed)
  \/ \E feed \in feeds : Unsubscribe(feed)
  \/ \E feed \in feeds : AddActivity(feed, SomeActivity)
  \/ \E feed \in feeds : AddActivities(feed, <<SomeActivity>>)
  \/ \E feed \in feeds : RemoveActivity(feed, SomeActivityRef)
  \/ \E feed \in feeds : Follow(feed, Str(<<"b">>), Str(<<"2">>), [limit |-> Num(5)])
  \/ \E feed \in feeds :
       Unfollow(feed, Str(<<"b">>), Str(<<"2">>), [keepHistory |-> Bool(TRUE)])
  \/ \E feed \in feeds : Following(feed, NoFollowOptions)
  \/ \E feed \in feeds : Followers(feed, NoFollowOptions)
  \/ \E feed \in feeds, enrich \in BOOLEAN : Get(feed, SomeGetOptions, enrich)
  \/ \E feed \in feeds : GetActivityDetail(feed, Str(<<"x", "1">>), Undefined, TRUE)
  \/ \E feed \in feeds :
       UpdateActivityToTargets(feed, Str(<<"f">>), Str(<<"t">>), Undefined,
                               Arr(<<<<"x">>>>), Undefined)

Spec == Init /\ [][Next]_vars

(***************************************************************************)
(* SpecCall: one call, with any arguments, on a feed just constructed.     *)
(***************************************************************************)
Constructed == call.op = "construct"

NextCall ==
  \/ /\ feeds = {}
     /\ \E feedSlug \in FeedSlugs, userId \in UserIds, token \in Tokens :
          Construct(feedSlug, userId, token)
  \/ Constructed /\ \E feed \in feeds, activity \in Activities : AddActivity(feed, activity)
  \/ Constructed /\ \E feed \in feeds, activities \in ActivityLists :
       AddActivities(feed, activities)
  \/ Constructed /\ \E feed \in feeds, activityId \in ActivityRefs :
       RemoveActivity(feed, activityId)
  \/ Constructed /\ \E feed \in feeds, targetSlug \in TargetSlugs,
                       targetUserId \in TargetUserIds, options \in FollowOptions :
       Follow(feed, targetSlug, targetUserId, options)
  \/ Constructed /\ \E feed \in feeds, targetSlug \in TargetSlugs,
                       targetUserId \in TargetUserIds, options \in UnfollowOptions :
       Unfollow(feed, targetSlug, targetUserId, options)
  \/ Constructed /\ \E feed \in feeds, options \in GetFollowOptions : Following(feed, options)
  \/ Constructed /\ \E feed \in feeds, options \in GetFollowOptions : Followers(feed, options)
  \/ Constructed /\ \E feed \in feeds, options \in GetOptions, enrich \in BOOLEAN :
       Get(feed, options, enrich)
  \/ Constructed /\ \E feed \in feeds, activityId \in {Str(<<"x", "1">>)},
                       options \in DetailOptions, enrich \in BOOLEAN :
       GetActivityDetail(feed, activityId, options, enrich)
  \/ Constructed /\ \E feed \in feeds, foreignId \in ForeignIds, time \in Times,
                       newTargets \in TargetLists, addedTargets \in TargetLists,
                       removedTargets \in TargetLists :
       UpdateActivityToTargets(feed, foreignId, time, newTargets, addedTargets,
                               removedTargets)

SpecCall == Init /\ [][NextCall]_vars

(***************************************************************************)
(* The claims.                                                             *)
(***************************************************************************)
Live(h) == handles[h].cancelled = 0
Registered(h) ==
  /\ handles[h].channel \in DOMAIN subscriptions
  /\ subscriptions[handles[h].channel].fayeSubscription = h

\* C1: after any subscribe and unsubscribe calls, a channel has at most one handle
\* that is not cancelled, and every handle that is not cancelled is the one the
\* registry holds for its channel: a second subscribe leaks no handle.
C1_NoLeakedHandle ==
  /\ \A h \in 1..Len(handles) : Live(h) => Registered(h)
  /\ \A h1, h2 \in 1..Len(handles) :
       Live(h1) /\ Live(h2) /\ handles[h1].channel = handles[h2].channel => h1 = h2

\* C2: unsubscribe on a feed whose channel has an entry deletes the entry and calls
\* cancel once on the handle stored in it, touching no other entry or handle;
\* unsubscribe on a feed whose channel has no entry changes nothing; neither throws,
\* and no handle is ever cancelled twice.
C2_UnsubscribeStep ==
  call'.op = "unsubscribe" =>
    LET channel == <<"/">> \o call'.feed.notificationChannel IN
    /\ err' = "none"
    /\ IF channel \in DOMAIN subscriptions
       THEN LET h == subscriptions[channel].fayeSubscription IN
            /\ DOMAIN subscriptions' = DOMAIN subscriptions \ {channel}
            /\ \A c \in DOMAIN subscriptions' : subscriptions'[c] = subscriptions[c]
            /\ Len(handles') = Len(handles)
            /\ handles'[h].cancelled = handles[h].cancelled + 1
            /\ \A g \in 1..Len(handles) : g # h => handles'[g] = handles[g]
       ELSE subscriptions' = subscriptions /\ handles' = handles

C2_UnsubscribeCancelsOnce ==
  /\ [][C2_UnsubscribeStep]_vars
  /\ [](\A h \in 1..Len(handles) : handles[h].cancelled <= 1)

\* an unsubscribe has deleted the entry of its feed and cancelled the handle
C2_Witness ==
  /\ call.op = "unsubscribe"
  /\ <<"/">> \o call.feed.notificationChannel \notin DOMAIN subscriptions
  /\ \E h \in 1..Len(handles) :
       /\ handles[h].channel = <<"/">> \o call.feed.notificationChannel
       /\ handles[h].cancelled = 1

\* C3: on a client without an app id, subscribe throws SiteError (the code's
\* configuration error), no Faye subscription is ever asked for and the registry
\* stays as it was, empty; unsubscribe then does nothing and does not throw.
C3_SubscribeNeedsAppId ==
  appId \in {Undefined, Str(<<>>)} =>
    /\ handles = <<>>
    /\ DOMAIN subscriptions = {}
    /\ call.op = "subscribe" => err = "SiteError"
    /\ call.op = "unsubscribe" => err = "none"

\* a subscribe has failed for want of an app id
C3_Witness ==
  /\ appId = Undefined
  /\ call.op = "subscribe"
  /\ err = "SiteError"

\* the elements of an array
Elements(a) == {a[i] : i \in 1..Len(a)}

\* absent, or present and empty
Missing(v) == v = Undefined \/ v = Str(<<>>)

\* C4: updateActivityToTargets throws, and hands the client no request, when
\* foreignId or time is missing or empty, when no target list is given, when
\* newTargets comes with addedTargets or removedTargets, or when addedTargets and
\* removedTargets share an element; otherwise it issues exactly one POST to
\* feed_targets/{urlPath}/activity_to_targets/ whose body holds foreign_id, time and
\* exactly the lists given.
C4_UpdateActivityToTargets ==
  call.op = "updateActivityToTargets" =>
    LET given(list) == list # Undefined
        refused ==
          \/ Missing(call.foreignId) \/ Missing(call.time)
          \/ ~given(call.newTargets) /\ ~given(call.addedTargets)
               /\ ~given(call.removedTargets)
          \/ given(call.newTargets)
               /\ (given(call.addedTargets) \/ given(call.removedTargets))
          \/ /\ given(call.addedTargets) /\ given(call.removedTargets)
             /\ Elements(call.addedTargets.a) \cap Elements(call.removedTargets.a) # {}
    IN IF refused
       THEN err = "Error" /\ sent = <<>>
       ELSE /\ err = "none"
            /\ Len(sent) = 1
            /\ sent[1].method = "POST"
            /\ sent[1].url = S_feedTargets \o call.feed.slug \o <<"/">> \o call.feed.userId
                               \o <<"/">> \o S_activityToTargets
            /\ sent[1].body = [foreign_id |-> call.foreignId,
                               time |-> call.time,
                               new_targets |-> call.newTargets,
                               added_targets |-> call.addedTargets,
                               removed_targets |-> call.removedTargets]

\* added and removed targets that do not overlap have been posted
C4_Witness ==
  /\ call.op = "updateActivityToTargets"
  /\ call.addedTargets = Arr(<<<<"x">>>>)
  /\ call.removedTargets = Arr(<<<<"y">>>>)
  /\ err = "none"
  /\ Len(sent) = 1

\* C5: the constructor throws, and makes no feed, when the slug is empty, the user
\* id is empty, the slug holds ':' or the token is empty or absent; given any other
\* arguments whose slug and user id hold allowed characters only, it makes a feed
\* with id = slug:userId and urlPath = slug/userId.
C5_Constructor ==
  call.op = "construct" =>
    LET refused ==
          \/ Missing(call.feedSlug) \/ Missing(call.userId) \/ Missing(call.token)
          \/ ":" \in Elements(call.feedSlug.s)
        allowed ==
          Elements(call.feedSlug.s) \cup Elements(call.userId.s) \subseteq AllowedChars
    IN /\ refused => err = "FeedError" /\ feeds = {}
       /\ ~refused /\ allowed =>
            /\ err = "none"
            /\ \E feed \in feeds :
                 /\ feeds = {feed}
                 /\ feed.slug = call.feedSlug.s /\ feed.userId = call.userId.s
                 /\ feed.id = call.feedSlug.s \o <<":">> \o call.userId.s
                 /\ feed.feedUrl = call.feedSlug.s \o <<"/">> \o call.userId.s

\* a feed has been constructed
C5_Witness ==
  /\ call.op = "construct"
  /\ err = "none"
  /\ \E feed \in feeds : feed.id = <<"a", "a", ":", "a">>

\* the comma-joined string of an array, built from the left
CommaJoined(a) ==
  LET upTo[i \in 0..Len(a)] ==
        IF i = 0 THEN <<>>
        ELSE IF i = 1 THEN a[1]
        ELSE upTo[i - 1] \o <<",">> \o a[i]
  IN upTo[Len(a)]

\* an option as it is transmitted
Transmitted(v) == IF v.k = "array" THEN Str(CommaJoined(v.a)) ELSE v

\* C6: the query of get, following and followers holds every option given, each as
\* it was given except that an array (of mark_read, mark_seen or filter) is replaced
\* by its comma-joined string, the empty array included; no array is transmitted.
C6_ComposedQuery ==
  call.op \in {"get", "following", "followers"} =>
    /\ err = "none"
    /\ Len(sent) = 1
    /\ sent[1].method = "GET"
    /\ DOMAIN sent[1].qs = DOMAIN call.options
    /\ \A key \in DOMAIN call.options :
         /\ sent[1].qs[key] = Transmitted(call.options[key])
         /\ sent[1].qs[key].k # "array"

\* get has transmitted an empty mark_read array as the empty string
C6_Witness ==
  /\ call.op = "get"
  /\ call.options.mark_read = Arr(<<>>)
  /\ call.options.mark_seen = Arr(<<<<"a">>, <<"b">>>>)
  /\ sent[1].qs.mark_read = Str(<<>>)
  /\ sent[1].qs.mark_seen = Str(<<"a", ",", "b">>)

\* C7: removeActivity issues one DELETE to feed/{urlPath}/{s}/ without foreign_id for
\* a string s, and one DELETE to feed/{urlPath}/{f}/ with foreign_id=1 for any
\* argument {foreignId: f}.
C7_RemoveActivityByShape ==
  call.op = "removeActivity" =>
    /\ err = "none"
    /\ Len(sent) = 1
    /\ sent[1].method = "DELETE"
    /\ LET base == S_feed \o call.feed.feedUrl \o <<"/">> IN
       IF call.activityId.k = "string"
       THEN /\ sent[1].url = base \o call.activityId.s \o <<"/">>
            /\ sent[1].qs.foreign_id = Undefined
       ELSE /\ sent[1].url = base \o call.activityId.o.foreignId.s \o <<"/">>
            /\ sent[1].qs.foreign_id = Str(<<"1">>)

\* a string that is not empty and holds allowed characters only
ValidId(v) == v.k = "string" /\ v.s # <<>> /\ Elements(v.s) \subseteq AllowedChars

\* the user id follow validates: the id of a StreamUser, else the argument itself
FollowedId(v) == IF v.k = "StreamUser" THEN Str(v.id) ELSE v

\* C8: follow and unfollow throw, and hand the client no request, when the target
\* slug or the target user id is not valid; they issue a request only when both are.
C8_ValidatedBeforeRequest ==
  /\ call.op = "follow" =>
       IF ValidId(call.targetSlug) /\ ValidId(FollowedId(call.targetUserId))
       THEN err = "none" /\ Len(sent) = 1
       ELSE err = "FeedError" /\ sent = <<>>
  /\ call.op = "unfollow" =>
       IF ValidId(call.targetSlug) /\ ValidId(call.targetUserId)
       THEN err = "none" /\ Len(sent) = 1
       ELSE err = "FeedError" /\ sent = <<>>

\* follow has refused a user id with a character that is not allowed
C8_Witness ==
  /\ call.op = "follow"
  /\ call.targetSlug = Str(<<"b">>)
  /\ call.targetUserId = Str(<<"2", "!">>)
  /\ err = "FeedError"
  /\ sent = <<>>

\* the user id the caller names: the id of a Feed-like object, which is any object
\* with an id (targetUserId: string | { id: string }), else the argument itself
NamedId(v) ==
  IF v.k = "StreamUser" THEN Str(v.id)
  ELSE IF v.k = "object" THEN v.o.id
  ELSE v

\* C9: follow of a valid target issues one POST to feed/{urlPath}/following/ whose
\* body holds target = targetSlug:id, id being the user id given or, when a
\* Feed-like object is given, the id of that object, and holds
\* activity_copy_limit = limit when limit is a number, zero included, and no
\* activity_copy_limit when no limit is given.
C9_FollowBody ==
  call.op = "follow" /\ ValidId(call.targetSlug) /\ ValidId(NamedId(call.targetUserId)) =>
    /\ Len(sent) = 1
    /\ sent[1].method = "POST"
    /\ sent[1].url = S_feed \o call.feed.feedUrl \o <<"/">> \o S_following
    /\ sent[1].body.target =
         Str(call.targetSlug.s \o <<":">> \o NamedId(call.targetUserId).s)
    /\ call.options.limit.k = "number" =>
         sent[1].body.activity_copy_limit = call.options.limit
    /\ call.options.limit = Undefined => sent[1].body.activity_copy_limit = Undefined

\* what follow does do: the same, with the id taken from an instance of StreamUser
\* only; any other object is validated as it is and refused
C9_FollowBodyOfStreamUser ==
  call.op = "follow" /\ ValidId(call.targetSlug) =>
    IF ValidId(FollowedId(call.targetUserId))
    THEN /\ Len(sent) = 1
         /\ sent[1].method = "POST"
         /\ sent[1].url = S_feed \o call.feed.feedUrl \o <<"/">> \o S_following
         /\ sent[1].body.target =
              Str(call.targetSlug.s \o <<":">> \o FollowedId(call.targetUserId).s)
         /\ call.options.limit.k = "number" =>
              sent[1].body.activity_copy_limit = call.options.limit
         /\ call.options.limit = Undefined => sent[1].body.activity_copy_limit = Undefined
    ELSE err = "FeedError" /\ sent = <<>>

\* follow of an object with the id "2" that is no StreamUser has been refused
C9_Witness ==
  /\ call.op = "follow"
  /\ call.targetSlug = Str(<<"b">>)
  /\ call.targetUserId = Obj([id |-> Str(<<"2">>)])
  /\ err = "FeedError"
  /\ sent = <<>>

\* the fields of a feed, as the constructor computes them from its arguments
Derived(feed) ==
  /\ feed.id = feed.slug \o <<":">> \o feed.userId
  /\ feed.feedUrl = feed.slug \o <<"/">> \o feed.userId
  /\ feed.feedTogether = feed.slug \o feed.userId
  /\ feed.signature = feed.slug \o feed.userId \o <<" ">> \o feed.token
  /\ feed.notificationChannel =
       S_site \o (IF appId = Undefined THEN S_undefined ELSE appId.s) \o S_dashFeed
         \o feed.slug \o feed.userId

\* url starts with one of the path prefixes followed by the feed's urlPath
BuiltFrom(url, feed) ==
  \E prefix \in {S_feed, S_enrich \o S_feed, S_feedTargets} :
    LET start == prefix \o feed.slug \o <<"/">> \o feed.userId \o <<"/">> IN
    Len(url) >= Len(start) /\ SubSeq(url, 1, Len(start)) = start

\* every feed has the fields its constructor computed, and every request of the last
\* call carries the signature and the urlPath of the feed it was made on
C10_FeedsAndRequests ==
  /\ \A feed \in feeds : Derived(feed)
  /\ \A i \in 1..Len(sent) :
       /\ call.feed \in feeds
       /\ sent[i].signature =
            call.feed.slug \o call.feed.userId \o <<" ">> \o call.feed.token
       /\ BuiltFrom(sent[i].url, call.feed)

\* every Faye channel subscribed to and every key of the registry is slash followed
\* by site-{appId}-feed-{joined} of a feed
C10_Channels(slash) ==
  LET name(feed) == slash \o S_site \o toString(appId) \o S_dashFeed
                      \o feed.slug \o feed.userId
  IN /\ \A h \in 1..Len(handles) : \E feed \in feeds : handles[h].channel = name(feed)
     /\ \A c \in DOMAIN subscriptions : \E feed \in feeds : c = name(feed)

\* C10 as stated: whatever operations were called, a feed keeps the id, urlPath,
\* joined form, signature and channel computed at construction, every request carries
\* the signature joined + " " + token and a path built from urlPath, and the channel
\* subscribe and unsubscribe use is site-{appId}-feed-{joined}.
C10_ChannelAsNamed ==
  /\ C10_FeedsAndRequests
  /\ C10_Channels(<<>>)

\* C10 as amended: the same, the channel subscribe and unsubscribe use being
\* /site-{appId}-feed-{joined}, the notification channel after a slash.
C10_FeedStable ==
  /\ [][\A feed \in feeds : feed \in feeds']_vars
  /\ [](C10_FeedsAndRequests /\ C10_Channels(<<"/">>))

\* a request has been made on a feed that is subscribed
C10_Witness ==
  /\ call.op = "removeActivity"
  /\ Len(sent) = 1
  /\ \E h \in 1..Len(handles) :
       /\ handles[h].cancelled = 0
       /\ handles[h].channel = <<"/">> \o call.feed.notificationChannel
       /\ handles[h].channel \in DOMAIN subscriptions

\* the registry entry of a feed's channel and the handles on that channel are after
\* the step what they were before it
EntryUntouched(feed) ==
  LET channel == <<"/">> \o feed.notificationChannel IN
  /\ channel \in DOMAIN subscriptions' <=> channel \in DOMAIN subscriptions
  /\ channel \in DOMAIN subscriptions => subscriptions'[channel] = subscriptions[channel]
  /\ \A h \in 1..Len(handles) :
       handles[h].channel = channel => handles'[h] = handles[h]

\* a subscribe or unsubscribe step on one feed leaves alone every other feed that
\* differs from it in the sense of Differ
C11_Step(Differ(_, _)) ==
  call'.op \in {"subscribe", "unsubscribe"} =>
    \A other \in feeds : Differ(call'.feed, other) => EntryUntouched(other)

DifferentIdentity(f, g) == <<f.slug, f.userId>> # <<g.slug, g.userId>>
DifferentJoined(f, g) == f.slug \o f.userId # g.slug \o g.userId

\* C11 as stated: subscribe or unsubscribe on one feed never creates, overwrites,
\* removes or cancels the registry entry and handle of a feed of the same client with
\* a different (slug, userId) pair.
C11_IndependentByIdentity == [][C11_Step(DifferentIdentity)]_vars

\* C11 as amended: subscribe or unsubscribe on one feed never creates, overwrites,
\* removes or cancels the registry entry and handle of a feed whose joined form
\* slug + userId is different; feeds whose joined forms differ never share a channel.
C11_IndependentByJoined ==
  /\ [][C11_Step(DifferentJoined)]_vars
  /\ [](\A f, g \in feeds :
          DifferentJoined(f, g) => f.notificationChannel # g.notificationChannel)

\* a subscribe on one feed while a feed with another joined form holds its entry
C11_Witness ==
  /\ call.op = "subscribe"
  /\ err = "none"
  /\ \E other \in feeds :
       /\ DifferentJoined(call.feed, other)
       /\ <<"/">> \o other.notificationChannel \in DOMAIN subscriptions
       /\ \E h \in 1..Len(handles) :
            /\ handles[h].channel = <<"/">> \o other.notificationChannel
            /\ handles[h].cancelled = 0

====
